---- MODULE Spec2Model ----
(***************************************************************************)
(* Model of lib/datachannel/client.js: DataChannelClient, its read (pull)  *)
(* and write (push) stream adapters and getStreamFromPointer.              *)
(*                                                                         *)
(* The WebSocket connection (ws) and the Readable / Writable streams       *)
(* (readable-stream) are the environment of the client.  Their behaviour   *)
(* as used here:                                                           *)
(*   - ws.send(data, cb) on a connection that is not OPEN invokes cb at    *)
(*     once with an error and transmits nothing; on an OPEN connection     *)
(*     the frame is queued and cb is invoked later, in FIFO order, with an *)
(*     error only once the connection has left OPEN;                       *)
(*   - close() moves an OPEN connection to CLOSING; 'close' comes later;   *)
(*   - ws delivers inbound frames until its 'close' event;                 *)
(*   - a Writable invokes write(chunk, enc, next) for one chunk at a time: *)
(*     the next chunk is offered only after next was invoked;              *)
(*   - a Readable invokes read() only while no read is in progress; a      *)
(*     push of a chunk ends the read in progress;                          *)
(*   - the consumer of a stream listens for its 'error' events.            *)
(***************************************************************************)
EXTENDS Integers, Sequences, FiniteSets, TLC

\* ------------------------------------------------------------------ bounds
MaxChunks == 2
MaxFrames == 2
\* 'error' events of a connection before it opens
MaxErrors == 2
\* 'error' events of a connection after it opened
MaxOpenErrors == 1
\* chunks offered to the write stream of a further createWriteStream call
MaxSecondChunks == 1

\* --------------------------------------------------------------- constants
OK == 200

Payloads == {"a", "b"}
Codes == {-1, 0, OK, 404}
Messages == {"not found"}

VARIABLES
  second,        \* the adapter of a further createReadStream or
                 \* createWriteStream call on the same client
  pointer,       \* the pointer given to getStreamFromPointer: what its
                 \* validation sees of it
  sockets,       \* number of WebSocketClient connections created
  thrown,        \* the assertion error getStreamFromPointer threw, or "none"
  op,            \* pointer.operation
  readyState,    \* self._client.readyState
  errListeners,  \* number of 'error' listeners on the DataChannelClient
  cbCalls,       \* invocations of the getStreamFromPointer callback
  selfErrors,    \* 'error' events emitted on the DataChannelClient itself
  streamKind,    \* "none", "read" or "write": the stream handed to the caller
  auth,          \* the adapter's auth flag
  events,        \* history of _client.send calls and of their callbacks
  pending,       \* sends accepted by the connection, callback not yet invoked
  chunks,        \* chunks offered to write(), in order, each with the
                 \* readyState it was offered in
  writing,       \* a write() is in progress: next not yet invoked
  completed,     \* number of successful next() invocations
  reading,       \* Readable: a read() is in progress
  ended,         \* Readable: push(null) was called
  output,        \* chunks pushed to the Readable, in order
  streamErrors,  \* 'error' events emitted on the stream
  inbox,         \* inbound frames handled so far, with what the handler did
  closeCalls,    \* number of calls of this.close() on the connection
  nErrors        \* number of 'error' events of the connection

vars == <<second, pointer, sockets, thrown, op, readyState, errListeners, cbCalls, selfErrors, streamKind, auth,
          events, pending, chunks, writing, completed, reading, ended, output,
          streamErrors, inbox, closeCalls, nErrors>>

\* ---------------------------------------------------------------- pointers
\* a farmer contact, as the constructor's assertions see it
Contacts == [present : BOOLEAN, addressIsString : BOOLEAN, portIsNumber : BOOLEAN]

\* a pointer, as getStreamFromPointer's assertion sees it
Pointers == [isPointer : BOOLEAN, farmer : Contacts]

ValidPointer ==
  [isPointer |-> TRUE,
   farmer |-> [present |-> TRUE, addressIsString |-> TRUE, portIsNumber |-> TRUE]]

\* assert(pointer instanceof DataChannelPointer, ...)
validPointer(p) == p.isPointer

\* the constructor's assertions when the port is not checked
validContact_portUnchecked(c) == c.present /\ c.addressIsString

\* assert.ok(contact); assert(typeof contact.address === 'string');
\* assert(typeof contact.port === 'number')
validContact(c) == c.present /\ c.addressIsString /\ c.portIsNumber

\* ------------------------------------------------------------------ frames
BinaryFrames ==
  {[binary |-> TRUE, json |-> FALSE, hasCode |-> FALSE, code |-> 0, body |-> p] :
     p \in Payloads}

ControlFrames ==
  {[binary |-> FALSE, json |-> TRUE, hasCode |-> TRUE, code |-> c, body |-> m] :
     c \in Codes, m \in Messages}
  \cup
  {[binary |-> FALSE, json |-> TRUE, hasCode |-> FALSE, code |-> 0, body |-> m] :
     m \in Messages}

MalformedFrames ==
  {[binary |-> FALSE, json |-> FALSE, hasCode |-> FALSE, code |-> 0, body |-> "garbage"]}

\* a text frame whose JSON text is the literal null
NullFrames ==
  {[binary |-> FALSE, json |-> TRUE, hasCode |-> FALSE, code |-> 0, body |-> "null"]}

Frames == BinaryFrames \cup ControlFrames \cup MalformedFrames \cup NullFrames

Handshake(operation) == [kind |-> "handshake", data |-> operation]
Binary(chunk) == [kind |-> "binary", data |-> chunk]

\* ------------------------------------------------------------------ errors
DecodingError == [kind |-> "decoding", message |-> "SyntaxError"]
ProtocolError(m) == [kind |-> "protocol", message |-> m]
TerminatedEarly == [kind |-> "terminated", message |-> "Remote host terminated early"]
TransportError == [kind |-> "transport", message |-> "transport"]
\* the error ws hands to the callback of a send that failed
SendFailure == [kind |-> "send", message |-> "send failed"]

\* ----------------------------------------------------------- pure helpers
\* JSON.parse(data): throws on text that is not JSON, otherwise yields the
\* object; a string (the unparsed data) has no code and no message.  The text
\* null parses to null, and reading data.code of null throws a TypeError.
JSONparse(f) ==
  IF f.json
    THEN [ok |-> TRUE, isNull |-> f \in NullFrames, hasCode |-> f.hasCode,
          code |-> f.code, message |-> f.body]
    ELSE [ok |-> FALSE, isNull |-> FALSE, hasCode |-> FALSE, code |-> 0, message |-> ""]

\* a 'message' listener left by the TypeError of data.code on null
Threw == [errs |-> <<>>, close |-> FALSE, push |-> <<>>, threw |-> TRUE]

\* data.code && data.code !== 200
isErrorCode(data) == data.hasCode /\ data.code # 0 /\ data.code # OK

\* if (auth) in write(): the test of the flag inverted
writeNeedsHandshake_inverted(a) == a

\* if (!auth) in write(): the handshake is sent for a chunk offered before auth
writeNeedsHandshake(a) == ~a

\* if (!auth) in read(): the handshake is sent on a read demand before auth
readNeedsHandshake(a) == ~a

\* the callback of the handshake send when it leaves the flag as it was
authAfterCallback_unset(a) == a

\* auth = true in the callback of the handshake send (its error is ignored)
authAfterCallback(a) == TRUE

\* sendData(chunk, next) when it returns silently from a connection that is
\* not OPEN: no error raised and next not invoked
sendData_silent(rs, chunk) ==
  IF rs # "OPEN"
    THEN [send |-> <<>>, nextNow |-> FALSE, selfErrs |-> <<>>]
    ELSE [send |-> <<[frame |-> Binary(chunk), cb |-> "next", chunk |-> chunk]>>,
          nextNow |-> FALSE, selfErrs |-> <<>>]

\* sendData(chunk, next) called when next is invoked at once instead of being
\* handed to the send as its callback
sendData_pipelined(rs, chunk) ==
  IF rs # "OPEN"
    THEN [send |-> <<>>, nextNow |-> FALSE, selfErrs |-> <<TerminatedEarly>>]
    ELSE [send |-> <<[frame |-> Binary(chunk), cb |-> "none", chunk |-> chunk]>>,
          nextNow |-> TRUE, selfErrs |-> <<>>]

\* sendData(chunk, next): what it sends, whether it invokes next itself, and
\* what it emits on the DataChannelClient
sendData(rs, chunk) ==
  IF rs # "OPEN"
    THEN [send |-> <<>>, nextNow |-> FALSE, selfErrs |-> <<TerminatedEarly>>]
    ELSE [send |-> <<[frame |-> Binary(chunk), cb |-> "next", chunk |-> chunk]>>,
          nextNow |-> FALSE, selfErrs |-> <<>>]

\* the read stream's 'message' listener with an empty catch block: a frame
\* that is not JSON is dropped without an error
readOnMessage_emptyCatch(f) ==
  IF ~f.binary
    THEN LET p == JSONparse(f)
         IN  IF p.isNull THEN Threw ELSE
             [errs |-> IF isErrorCode(p) THEN <<ProtocolError(p.message)>> ELSE <<>>,
              close |-> TRUE, push |-> <<>>, threw |-> FALSE]
    ELSE [errs |-> <<>>, close |-> FALSE, push |-> <<f.body>>, threw |-> FALSE]

\* the read stream's 'message' listener when it parses every frame, as the
\* write stream's listener does
readOnMessage_parsesAll(f) ==
  LET p == JSONparse(f)
      e1 == IF p.ok THEN <<>> ELSE <<DecodingError>>
      e2 == IF isErrorCode(p) THEN <<ProtocolError(p.message)>> ELSE <<>>
  IN  IF p.isNull THEN Threw ELSE
      [errs |-> e1 \o e2, close |-> TRUE, push |-> <<>>, threw |-> FALSE]

\* the read stream's 'message' listener: the errors it emits on rstream,
\* whether it calls this.close(), and what it pushes
readOnMessage(f) ==
  IF ~f.binary
    THEN LET p == JSONparse(f)
             e1 == IF p.ok THEN <<>> ELSE <<DecodingError>>
             e2 == IF isErrorCode(p) THEN <<ProtocolError(p.message)>> ELSE <<>>
         IN  IF p.isNull THEN Threw ELSE
             [errs |-> e1 \o e2, close |-> TRUE, push |-> <<>>, threw |-> FALSE]
    ELSE [errs |-> <<>>, close |-> FALSE, push |-> <<f.body>>, threw |-> FALSE]

\* the write stream's 'message' listener when it returns from the catch block
writeOnMessage_returnsOnError(f) ==
  LET p == JSONparse(f)
  IN  IF p.isNull THEN Threw ELSE
      IF ~p.ok
        THEN [errs |-> <<DecodingError>>, close |-> FALSE, push |-> <<>>, threw |-> FALSE]
        ELSE [errs |-> IF isErrorCode(p) THEN <<ProtocolError(p.message)>> ELSE <<>>,
              close |-> TRUE, push |-> <<>>, threw |-> FALSE]

\* the write stream's 'message' listener: every frame is parsed, binary or not
writeOnMessage(f) ==
  LET p == JSONparse(f)
      e1 == IF p.ok THEN <<>> ELSE <<DecodingError>>
      e2 == IF isErrorCode(p) THEN <<ProtocolError(p.message)>> ELSE <<>>
  IN  IF p.isNull THEN Threw ELSE
      [errs |-> e1 \o e2, close |-> TRUE, push |-> <<>>, threw |-> FALSE]

\* the 'open' listener that leaves the callback registered for 'error'
listenersAfterOpen_kept(n) == n

\* dcx.removeAllListeners('error') in the 'open' listener
listenersAfterOpen(n) == 0

\* the stream the 'open' listener creates for pointer.operation
adapterFor(operation) == IF operation = "PUSH" THEN "write" ELSE "read"

\* ws: the outcomes of the callback of a queued send
AckOutcomes(rs) ==
  CASE rs = "OPEN" -> {TRUE}
    [] rs = "CLOSING" -> {TRUE, FALSE}
    [] OTHER -> {FALSE}

\* this.close() on the connection
closeState(rs) == IF rs = "OPEN" THEN "CLOSING" ELSE rs

Sent(r) == [i \in 1..Len(r.send) |-> [type |-> "send", frame |-> r.send[i].frame]]

\* no further adapter was created on the client
NoSecond ==
  [kind |-> "none", auth |-> FALSE, busy |-> FALSE, demands |-> 0, msgs |-> 0,
   errors |-> <<>>, output |-> <<>>, ended |-> FALSE]

\* the callbacks the further adapter hands to _client.send
SecondCallbacks == {"secondReadAuth", "secondWriteAuth", "secondNext"}

\* ----------------------------------------------------------------- initial
Init ==
  /\ second = NoSecond
  /\ pointer = ValidPointer
  /\ sockets = 1
  /\ thrown = "none"
  /\ op \in {"PUSH", "PULL"}
  /\ readyState = "CONNECTING"
  /\ errListeners = 1
  /\ cbCalls = <<>>
  /\ selfErrors = <<>>
  /\ streamKind = "none"
  /\ auth = FALSE
  /\ events = <<>>
  /\ pending = <<>>
  /\ chunks = <<>>
  /\ writing = FALSE
  /\ completed = 0
  /\ reading = FALSE
  /\ ended = FALSE
  /\ output = <<>>
  /\ streamErrors = <<>>
  /\ inbox = <<>>
  /\ closeCalls = 0
  /\ nErrors = 0

\* ----------------------------------------------------------------- actions
\* 'open' of the connection: _handleChannelOpen emits 'open', whose listener
\* removes the error listeners and hands the stream to the callback
ChannelOpen ==
  /\ readyState = "CONNECTING"
  /\ readyState' = "OPEN"
  /\ errListeners' = listenersAfterOpen(errListeners)
  /\ streamKind' = adapterFor(op)
  /\ cbCalls' = Append(cbCalls, [err |-> "null", stream |-> streamKind'])
  /\ UNCHANGED <<second, pointer, sockets, thrown, op, selfErrors, auth, events, pending, chunks, writing, completed,
                 reading, ended, output, streamErrors, inbox, closeCalls, nErrors>>

\* 'error' of the connection: _handleChannelError emits it on the client
ChannelError ==
  /\ sockets > 0
  /\ nErrors < (IF streamKind = "none" THEN MaxErrors ELSE MaxOpenErrors)
  /\ nErrors' = nErrors + 1
  /\ IF errListeners > 0
       THEN /\ cbCalls' = Append(cbCalls, [err |-> "transport", stream |-> "none"])
            /\ UNCHANGED selfErrors
       ELSE /\ selfErrors' = Append(selfErrors, TransportError)
            /\ UNCHANGED cbCalls
  /\ readyState' = IF readyState = "CONNECTING" THEN "CLOSED" ELSE readyState
  /\ UNCHANGED <<second, pointer, sockets, thrown, op, errListeners, streamKind, auth, events, pending, chunks, writing,
                 completed, reading, ended, output, streamErrors, inbox, closeCalls>>

\* the effect of sendData's result r on the write stream, from events ev and
\* pending sends pd
ApplySendData(r, ev, pd) ==
  /\ events' = ev \o Sent(r)
  /\ pending' = pd \o r.send
  /\ selfErrors' = selfErrors \o r.selfErrs
  /\ writing' = ~r.nextNow
  /\ completed' = IF r.nextNow THEN completed + 1 ELSE completed

\* the Writable offers a chunk: write(chunk, encoding, next)
PushWrite ==
  /\ streamKind = "write"
  /\ ~writing
  /\ Len(chunks) < MaxChunks
  /\ \E chunk \in Payloads :
       /\ chunks' = Append(chunks, [data |-> chunk, rs |-> readyState])
       /\ IF writeNeedsHandshake(auth)
            THEN IF readyState = "OPEN"
                   THEN /\ events' = Append(events, [type |-> "send", frame |-> Handshake("PUSH")])
                        /\ pending' = Append(pending, [frame |-> Handshake("PUSH"),
                                                       cb |-> "writeAuth", chunk |-> chunk])
                        /\ writing' = TRUE
                        /\ UNCHANGED <<auth, selfErrors, completed>>
                   ELSE \* the send is refused and its callback runs at once
                        /\ auth' = authAfterCallback(auth)
                        /\ ApplySendData(sendData(readyState, chunk),
                                         Append(events, [type |-> "refused",
                                                         frame |-> Handshake("PUSH")]),
                                         pending)
            ELSE /\ ApplySendData(sendData(readyState, chunk), events, pending)
                 /\ UNCHANGED auth
  /\ UNCHANGED <<second, pointer, sockets, thrown, op, readyState, errListeners, cbCalls, streamKind, reading, ended,
                 output, streamErrors, inbox, closeCalls, nErrors>>

\* the Readable demands data: read()
PullRead ==
  /\ streamKind = "read"
  /\ ~reading
  /\ ~ended
  /\ reading' = TRUE
  /\ IF readNeedsHandshake(auth)
       THEN IF readyState = "OPEN"
              THEN /\ events' = Append(events, [type |-> "send", frame |-> Handshake("PULL")])
                   /\ pending' = Append(pending, [frame |-> Handshake("PULL"),
                                                  cb |-> "readAuth", chunk |-> ""])
                   /\ UNCHANGED auth
              ELSE /\ events' = Append(events, [type |-> "refused", frame |-> Handshake("PULL")])
                   /\ auth' = authAfterCallback(auth)
                   /\ UNCHANGED pending
       ELSE UNCHANGED <<auth, events, pending>>
  /\ UNCHANGED <<second, pointer, sockets, thrown, op, readyState, errListeners, cbCalls, selfErrors, streamKind, chunks,
                 writing, completed, ended, output, streamErrors, inbox, closeCalls,
                 nErrors>>

\* the connection invokes the callback of its oldest queued send
SendCallback ==
  /\ pending # <<>>
  /\ Head(pending).cb \notin SecondCallbacks
  /\ LET h == Head(pending) IN
     \E ok \in AckOutcomes(readyState) :
       LET ev == Append(events, [type |-> IF ok THEN "ack" ELSE "failed", frame |-> h.frame])
       IN
       CASE h.cb = "readAuth" ->
              /\ auth' = authAfterCallback(auth)
              /\ events' = ev
              /\ pending' = Tail(pending)
              /\ UNCHANGED <<selfErrors, writing, completed, streamErrors>>
         [] h.cb = "writeAuth" ->
              /\ auth' = authAfterCallback(auth)
              /\ ApplySendData(sendData(readyState, h.chunk), ev, Tail(pending))
              /\ UNCHANGED streamErrors
         [] h.cb = "next" ->
              /\ events' = ev
              /\ pending' = Tail(pending)
              /\ writing' = FALSE
              /\ completed' = IF ok THEN completed + 1 ELSE completed
              /\ streamErrors' = IF ok THEN streamErrors
                                       ELSE Append(streamErrors, SendFailure)
              /\ UNCHANGED <<auth, selfErrors>>
         [] OTHER ->
              /\ events' = ev
              /\ pending' = Tail(pending)
              /\ UNCHANGED <<auth, selfErrors, writing, completed, streamErrors>>
  /\ UNCHANGED <<second, pointer, sockets, thrown, op, readyState, errListeners, cbCalls, streamKind, chunks, reading,
                 ended, output, inbox, closeCalls, nErrors>>

\* the effect of a 'message' listener's result r for frame f; the listeners
\* of 'message' run in the order they were registered, and a listener that
\* throws ends the emit
ApplyMessage(f, r) ==
  LET r2 == IF second.kind = "read" THEN readOnMessage(f) ELSE writeOnMessage(f)
      both == second.kind # "none" /\ ~r.threw
      closes == (IF r.close THEN 1 ELSE 0) + (IF both /\ r2.close THEN 1 ELSE 0)
  IN
  /\ streamErrors' = streamErrors \o r.errs
  /\ output' = output \o r.push
  /\ reading' = IF r.push # <<>> THEN FALSE ELSE reading
  /\ closeCalls' = closeCalls + closes
  /\ readyState' = IF closes > 0 THEN closeState(readyState) ELSE readyState
  /\ second' = IF both
                 THEN [second EXCEPT !.msgs = @ + 1,
                                     !.errors = @ \o r2.errs,
                                     !.output = @ \o r2.push,
                                     !.busy = IF r2.push # <<>> THEN FALSE ELSE @]
                 ELSE second
  /\ inbox' = Append(inbox, [frame |-> f, errs |-> r.errs, close |-> r.close,
                             pushed |-> r.push # <<>>, threw |-> r.threw])

\* 'message' of the connection, read stream
ReadMessage ==
  /\ streamKind = "read"
  /\ readyState \in {"OPEN", "CLOSING"}
  /\ Len(inbox) < MaxFrames
  /\ \E f \in Frames : ApplyMessage(f, readOnMessage(f))
  /\ UNCHANGED <<pointer, sockets, thrown, op, errListeners, cbCalls, selfErrors, streamKind, auth, events,
                 pending, chunks, writing, completed, ended, nErrors>>

\* 'message' of the connection, write stream
WriteMessage ==
  /\ streamKind = "write"
  /\ readyState \in {"OPEN", "CLOSING"}
  /\ Len(inbox) < MaxFrames
  /\ \E f \in Frames : ApplyMessage(f, writeOnMessage(f))
  /\ UNCHANGED <<pointer, sockets, thrown, op, errListeners, cbCalls, selfErrors, streamKind, auth, events,
                 pending, chunks, writing, completed, ended, nErrors>>

\* a further call of createReadStream or createWriteStream on the client the
\* resolver returned, after the resolver made its stream
CreateSecondStream ==
  /\ streamKind # "none"
  /\ second.kind = "none"
  /\ \E k \in {"read", "write"} : second' = [second EXCEPT !.kind = k]
  /\ UNCHANGED <<pointer, sockets, thrown, op, readyState, errListeners, cbCalls,
                 selfErrors, streamKind, auth, events, pending, chunks, writing,
                 completed, reading, ended, output, streamErrors, inbox, closeCalls,
                 nErrors>>

\* the sends of sendData's result r, made by the further write stream
SecondSends(r) == [i \in 1..Len(r.send) |-> [r.send[i] EXCEPT !.cb = "secondNext"]]

\* read() of the further read stream
SecondRead ==
  /\ second.kind = "read"
  /\ ~second.busy
  /\ ~second.ended
  /\ IF readNeedsHandshake(second.auth)
       THEN IF readyState = "OPEN"
              THEN /\ events' = Append(events, [type |-> "send", frame |-> Handshake("PULL")])
                   /\ pending' = Append(pending, [frame |-> Handshake("PULL"),
                                                  cb |-> "secondReadAuth", chunk |-> ""])
                   /\ second' = [second EXCEPT !.busy = TRUE]
              ELSE /\ events' = Append(events, [type |-> "refused", frame |-> Handshake("PULL")])
                   /\ second' = [second EXCEPT !.busy = TRUE,
                                               !.auth = authAfterCallback(@)]
                   /\ UNCHANGED pending
       ELSE /\ second' = [second EXCEPT !.busy = TRUE]
            /\ UNCHANGED <<events, pending>>
  /\ UNCHANGED <<pointer, sockets, thrown, op, readyState, errListeners, cbCalls,
                 selfErrors, streamKind, auth, chunks, writing, completed, reading,
                 ended, output, streamErrors, inbox, closeCalls, nErrors>>

\* write(chunk, encoding, next) of the further write stream
SecondWrite ==
  /\ second.kind = "write"
  /\ ~second.busy
  /\ second.demands < MaxSecondChunks
  /\ \E chunk \in Payloads :
       LET r == sendData(readyState, chunk) IN
       IF writeNeedsHandshake(second.auth)
         THEN IF readyState = "OPEN"
                THEN /\ events' = Append(events, [type |-> "send", frame |-> Handshake("PUSH")])
                     /\ pending' = Append(pending, [frame |-> Handshake("PUSH"),
                                                    cb |-> "secondWriteAuth", chunk |-> chunk])
                     /\ second' = [second EXCEPT !.busy = TRUE, !.demands = @ + 1]
                     /\ UNCHANGED selfErrors
                ELSE /\ events' = Append(events, [type |-> "refused",
                                                  frame |-> Handshake("PUSH")]) \o Sent(r)
                     /\ pending' = pending \o SecondSends(r)
                     /\ selfErrors' = selfErrors \o r.selfErrs
                     /\ second' = [second EXCEPT !.busy = ~r.nextNow, !.demands = @ + 1,
                                                 !.auth = authAfterCallback(@)]
         ELSE /\ events' = events \o Sent(r)
              /\ pending' = pending \o SecondSends(r)
              /\ selfErrors' = selfErrors \o r.selfErrs
              /\ second' = [second EXCEPT !.busy = ~r.nextNow, !.demands = @ + 1]
  /\ UNCHANGED <<pointer, sockets, thrown, op, readyState, errListeners, cbCalls,
                 streamKind, auth, chunks, writing, completed, reading, ended, output,
                 streamErrors, inbox, closeCalls, nErrors>>

\* the connection invokes the callback of its oldest queued send, a send of
\* the further adapter
SecondCallback ==
  /\ pending # <<>>
  /\ Head(pending).cb \in SecondCallbacks
  /\ LET h == Head(pending) IN
     \E ok \in AckOutcomes(readyState) :
       LET ev == Append(events, [type |-> IF ok THEN "ack" ELSE "failed", frame |-> h.frame])
           r == sendData(readyState, h.chunk)
       IN
       CASE h.cb = "secondReadAuth" ->
              /\ second' = [second EXCEPT !.auth = authAfterCallback(@)]
              /\ events' = ev
              /\ pending' = Tail(pending)
              /\ UNCHANGED selfErrors
         [] h.cb = "secondWriteAuth" ->
              /\ second' = [second EXCEPT !.auth = authAfterCallback(@),
                                          !.busy = ~r.nextNow]
              /\ events' = ev \o Sent(r)
              /\ pending' = Tail(pending) \o SecondSends(r)
              /\ selfErrors' = selfErrors \o r.selfErrs
         [] OTHER ->
              /\ second' = [second EXCEPT !.busy = FALSE,
                                          !.errors = IF ok THEN @ ELSE Append(@, SendFailure)]
              /\ events' = ev
              /\ pending' = Tail(pending)
              /\ UNCHANGED selfErrors
  /\ UNCHANGED <<pointer, sockets, thrown, op, readyState, errListeners, cbCalls,
                 streamKind, auth, chunks, writing, completed, reading, ended, output,
                 streamErrors, inbox, closeCalls, nErrors>>

\* 'close' of the connection with no 'close' listener on the read stream
ConnClose_noListener ==
  /\ readyState \in {"OPEN", "CLOSING"}
  /\ readyState' = "CLOSED"
  /\ UNCHANGED <<second, pointer, sockets, thrown, op, errListeners, cbCalls, selfErrors, streamKind, auth, events,
                 pending, chunks, writing, completed, reading, ended, output,
                 streamErrors, inbox, closeCalls, nErrors>>

\* 'close' of the connection: the read stream's listener pushes null
ConnClose ==
  /\ readyState \in {"OPEN", "CLOSING"}
  /\ readyState' = "CLOSED"
  /\ ended' = IF streamKind = "read" THEN TRUE ELSE ended
  /\ reading' = IF streamKind = "read" THEN FALSE ELSE reading
  /\ second' = IF second.kind = "read"
                 THEN [second EXCEPT !.ended = TRUE, !.busy = FALSE]
                 ELSE second
  /\ UNCHANGED <<pointer, sockets, thrown, op, errListeners, cbCalls, selfErrors, streamKind, auth, events,
                 pending, chunks, writing, completed, output, streamErrors, inbox,
                 closeCalls, nErrors>>

Next ==
  \/ ChannelOpen
  \/ ChannelError
  \/ PushWrite
  \/ PullRead
  \/ SendCallback
  \/ ReadMessage
  \/ WriteMessage
  \/ ConnClose

Spec == Init /\ [][Next]_vars

\* the state before getStreamFromPointer is called, for any pointer
InitCall ==
  /\ second = NoSecond
  /\ pointer \in Pointers
  /\ sockets = 0
  /\ thrown = "none"
  /\ op \in {"PUSH", "PULL"}
  /\ readyState = "NONE"
  /\ errListeners = 0
  /\ cbCalls = <<>>
  /\ selfErrors = <<>>
  /\ streamKind = "none"
  /\ auth = FALSE
  /\ events = <<>>
  /\ pending = <<>>
  /\ chunks = <<>>
  /\ writing = FALSE
  /\ completed = 0
  /\ reading = FALSE
  /\ ended = FALSE
  /\ output = <<>>
  /\ streamErrors = <<>>
  /\ inbox = <<>>
  /\ closeCalls = 0
  /\ nErrors = 0

\* getStreamFromPointer(pointer, callback): the assertions, then the
\* connection and the 'error' listener
GetStreamFromPointer ==
  /\ readyState = "NONE"
  /\ thrown = "none"
  /\ IF validPointer(pointer) /\ validContact(pointer.farmer)
       THEN /\ sockets' = sockets + 1
            /\ readyState' = "CONNECTING"
            /\ errListeners' = errListeners + 1
            /\ UNCHANGED thrown
       ELSE /\ thrown' = "AssertionError"
            /\ UNCHANGED <<sockets, readyState, errListeners>>
  /\ UNCHANGED <<second, pointer, op, cbCalls, selfErrors, streamKind, auth, events, pending,
                 chunks, writing, completed, reading, ended, output, streamErrors,
                 inbox, closeCalls, nErrors>>

NextCall ==
  \/ GetStreamFromPointer
  \/ Next

ResolverSpec == InitCall /\ [][NextCall]_vars

NextAdapters ==
  \/ Next
  \/ CreateSecondStream
  \/ SecondRead
  \/ SecondWrite
  \/ SecondCallback

\* the client with further createReadStream / createWriteStream calls on it
AdaptersSpec == Init /\ [][NextAdapters]_vars

\* the transport eventually invokes the callback of every send it accepted
FairSpec == Spec /\ WF_vars(SendCallback)

\* ------------------------------------------------------ derived histories
Range(s) == {s[i] : i \in 1..Len(s)}

\* the frames handed to _client.send, in call order, accepted or refused
SendCalls == SelectSeq(events, LAMBDA e : e.type \in {"send", "refused"})

\* the frames the connection accepted, in order
Wire ==
  LET w == SelectSeq(events, LAMBDA e : e.type = "send")
  IN  [i \in 1..Len(w) |-> w[i].frame]

\* the callbacks of binary sends, in order
BinaryCallbacks ==
  SelectSeq(events, LAMBDA e : e.type \in {"ack", "failed"} /\ e.frame.kind = "binary")

\* the payloads of the binary frames received, in receipt order
ReceivedPayloads ==
  LET b == SelectSeq(inbox, LAMBDA r : r.frame.binary)
  IN  [i \in 1..Len(b) |-> b[i].frame.body]

\* a handshake followed by the first n chunks offered
HandshakeThenChunks(n) ==
  <<Handshake("PUSH")>> \o [i \in 1..n |-> Binary(chunks[i].data)]

\* ------------------------------------------------------------------ claims

\* C1: on a push stream no binary frame is handed to the connection before the
\* PUSH handshake was sent and its send callback has run, and the first binary
\* frame is handed over from that callback (the event right before it).
C1_HandshakeBeforePayload ==
  op = "PUSH" =>
    \A i \in 1..Len(events) :
      (events[i].type \in {"send", "refused"} /\ events[i].frame.kind = "binary") =>
        /\ \E j \in 1..(i - 1) : \E k \in (j + 1)..(i - 1) :
             /\ events[j] = [type |-> "send", frame |-> Handshake("PUSH")]
             /\ events[k] = [type |-> "ack", frame |-> Handshake("PUSH")]
        /\ (\A h \in 1..(i - 1) : events[h].frame.kind # "binary")
             => events[i - 1] = [type |-> "ack", frame |-> Handshake("PUSH")]

C1_Witness ==
  /\ op = "PUSH"
  /\ \E i \in 1..Len(events) :
       events[i].type = "send" /\ events[i].frame.kind = "binary"

\* C2: on a push stream whose connection stayed open and whose peer sent
\* nothing, the frames sent are one handshake followed by one binary frame per
\* chunk, in the order written; once every written chunk has completed, the
\* frames are the handshake and exactly those chunks.
C2_OneHandshakeThenChunks ==
  (op = "PUSH" /\ readyState = "OPEN" /\ inbox = <<>>) =>
    /\ SendCalls = SelectSeq(events, LAMBDA e : e.type = "send")
    /\ chunks = <<>> => Wire = <<>>
    /\ chunks # <<>> =>
         /\ \E n \in {Len(chunks) - 1, Len(chunks)} :
              Wire = HandshakeThenChunks(n) /\ completed <= n
         /\ ~writing => (Wire = HandshakeThenChunks(Len(chunks))
                         /\ completed = Len(chunks))

C2_Witness ==
  /\ op = "PUSH" /\ readyState = "OPEN" /\ inbox = <<>>
  /\ Len(chunks) >= 2
  /\ completed = Len(chunks)
  /\ chunks[1].data # chunks[2].data

\* C3: on a push stream at most one send is outstanding at any time; the
\* completion of chunk k follows the callback of the binary send of chunk k;
\* and chunk k+1 is offered only after that callback.
C3_SequentialSends ==
  op = "PUSH" =>
    /\ Len(pending) <= 1
    /\ completed = Len(SelectSeq(BinaryCallbacks, LAMBDA e : e.type = "ack"))
    /\ Len(BinaryCallbacks) <= Len(chunks)
    /\ \A k \in 1..Len(BinaryCallbacks) :
         BinaryCallbacks[k].frame = Binary(chunks[k].data)
    /\ Len(chunks) <= Len(BinaryCallbacks) + 1

C3_Witness ==
  /\ op = "PUSH"
  /\ completed >= 1
  /\ Len(pending) = 1
  /\ pending[1].frame.kind = "binary"

\* C4: on a pull stream at most one PULL handshake is ever handed to the
\* connection, whatever the read demands, send callbacks and inbound frames.
C4_OnePullHandshake ==
  op = "PULL" =>
    Len(SelectSeq(SendCalls, LAMBDA e : e.frame.kind = "handshake")) <= 1

\* C5: on a pull stream the chunks pushed are the binary frames received, in
\* receipt order; after the connection closed with no control frame received
\* the stream has ended and no error was emitted on it.
C5_OutputIsReceived ==
  op = "PULL" =>
    /\ output = ReceivedPayloads
    /\ (readyState = "CLOSED" /\ streamKind = "read"
          /\ \A i \in 1..Len(inbox) : inbox[i].frame.binary)
         => (ended /\ streamErrors = <<>>)

C5_Witness ==
  /\ op = "PULL"
  /\ Len(output) >= 2
  /\ output[1] # output[2]
  /\ readyState = "CLOSED"
  /\ ended
  /\ streamErrors = <<>>

\* C6: on a pull stream, once a control frame with a code other than 200 was
\* received, an error with its message has been emitted and no binary frame
\* received after it is pushed.
C6_ControlFrameIsTerminal ==
  op = "PULL" =>
    \A i \in 1..Len(inbox) :
      (inbox[i].frame \in ControlFrames /\ inbox[i].frame.hasCode
         /\ inbox[i].frame.code # OK) =>
        /\ ProtocolError(inbox[i].frame.body) \in Range(streamErrors)
        /\ \A j \in (i + 1)..Len(inbox) : ~inbox[j].pushed

\* C7: a 'message' listener that emits a decoding or protocol error on the
\* stream calls close() in the handling of the same message; no state has
\* such an error emitted and close not requested.
C7_ErrorImpliesClose ==
  /\ \A i \in 1..Len(inbox) : inbox[i].errs # <<>> => inbox[i].close
  /\ (\E e \in Range(streamErrors) : e.kind \in {"decoding", "protocol"})
       => (closeCalls >= 1 /\ readyState \in {"CLOSING", "CLOSED"})

C7_Witness ==
  /\ \E i \in 1..Len(inbox) : inbox[i].errs = <<DecodingError>> /\ inbox[i].close
  /\ \E e \in Range(streamErrors) : e.kind = "protocol"

\* C8: on a push stream a chunk offered while the connection is not OPEN makes
\* the write stream itself emit 'Remote host terminated early', and its write
\* does not stay in progress.
C8_WriteStreamFails ==
  op = "PUSH" =>
    \A i \in 1..Len(chunks) :
      chunks[i].rs # "OPEN" =>
        /\ TerminatedEarly \in Range(streamErrors)
        /\ (i = Len(chunks) => ~writing)

\* C9: on a push stream a chunk offered while the connection is not OPEN
\* causes no call of the connection's send: neither a binary frame nor the
\* handshake is handed to a connection that is not OPEN.
C9_NoSendWhenNotOpen ==
  op = "PUSH" => \A i \in 1..Len(events) : events[i].type # "refused"

\* C10: for every parsed control message, on either stream: no error is emitted
\* when the code is 200 or absent, and an error with the message is emitted for
\* any other code, 0 and negative codes included.
C10_ErrorIffNot200 ==
  \A i \in 1..Len(inbox) :
    inbox[i].frame \in ControlFrames =>
      IF ~inbox[i].frame.hasCode \/ inbox[i].frame.code = OK
        THEN inbox[i].errs = <<>>
        ELSE ProtocolError(inbox[i].frame.body) \in Range(inbox[i].errs)

\* C11: on either stream a non-binary frame that is not JSON gets exactly one
\* error, the decoding error and no protocol error, and close() is called in
\* its handling.
C11_MalformedOneError ==
  \A i \in 1..Len(inbox) :
    inbox[i].frame \in MalformedFrames =>
      /\ inbox[i].errs = <<DecodingError>>
      /\ inbox[i].close
      /\ DecodingError \in Range(streamErrors)
      /\ closeCalls >= 1

C11_Witness ==
  /\ streamKind = "read"
  /\ \E i \in 1..Len(inbox) : inbox[i].frame \in MalformedFrames
  /\ streamErrors = <<DecodingError>>

\* C16: once the session opened, the client has no 'error' listener, the
\* callback was invoked exactly once with a stream, a write stream exactly
\* for PUSH and a read stream otherwise, and not with an error afterwards.
C16_OpenHandsStreamOnce ==
  streamKind # "none" =>
    /\ errListeners = 0
    /\ cbCalls = <<[err |-> "null", stream |-> streamKind]>>
    /\ streamKind = "write" <=> op = "PUSH"
    /\ streamKind = "read" <=> op # "PUSH"

C16_Witness ==
  /\ streamKind = "read"
  /\ nErrors >= 1
  /\ selfErrors # <<>>

\* C17: on a pull stream end-of-stream is signaled exactly by the connection's
\* 'close' event: not before it, at every close event, and nothing is pushed
\* once it was signaled.
C17_EndOnlyOnClose ==
  /\ [](streamKind = "read" => (ended <=> readyState = "CLOSED"))
  /\ [][ended => (ended' /\ output' = output)]_vars

C17_Witness ==
  /\ streamKind = "read"
  /\ ended
  /\ closeCalls >= 1
  /\ output # <<>>

\* C18: on a pull stream no end-of-stream is signaled once an error was
\* emitted on the stream: the close after an error signals nothing more.
C18_NoEndAfterError ==
  streamKind = "read" => ~(ended /\ streamErrors # <<>>)

\* the invocations of the getStreamFromPointer callback with an error
ErrorCalls == SelectSeq(cbCalls, LAMBDA c : c.err # "null")

\* C13: when the session reports errors before it opens, the callback is
\* invoked with an error exactly once, however many error events there are,
\* and never with both an error and a stream.
C13_OneErrorCallback ==
  /\ (streamKind = "none" /\ nErrors >= 1) => Len(ErrorCalls) = 1
  /\ ~(ErrorCalls # <<>> /\ \E i \in 1..Len(cbCalls) : cbCalls[i].stream # "none")

\* C14: every 'error' event of the connection is surfaced exactly once, to the
\* callback before open or on the stream after open, and none is emitted
\* where nothing listens.
C14_TransportErrorSurfaced ==
  /\ nErrors = Len(ErrorCalls)
               + Len(SelectSeq(streamErrors, LAMBDA e : e = TransportError))
  /\ TransportError \notin Range(selfErrors)

\* C19: on a push stream the handling of every inbound message calls close();
\* a reply with code 200 emits no error; and the writes completed are those
\* whose binary send was acknowledged.
C19_AnyMessageCloses ==
  streamKind = "write" =>
    /\ \A i \in 1..Len(inbox) :
         /\ inbox[i].close
         /\ (inbox[i].frame.hasCode /\ inbox[i].frame.code = OK) => inbox[i].errs = <<>>
    /\ inbox # <<>> => (closeCalls >= 1 /\ readyState # "OPEN")
    /\ completed = Len(SelectSeq(BinaryCallbacks, LAMBDA e : e.type = "ack"))

\* chunk k has reached its outcome: the callback of its binary send has run
\* (next invoked), or 'Remote host terminated early' was raised for it
ChunkSettled(k) ==
  \/ k <= Len(BinaryCallbacks)
  \/ k = Len(chunks) /\ TerminatedEarly \in Range(selfErrors)

\* C20: on a push stream, with every accepted send eventually called back,
\* every offered chunk eventually has next invoked from its binary send's
\* callback or 'Remote host terminated early' raised, never both and never
\* twice.
C20_EveryChunkSettles ==
  /\ [](streamKind = "write" =>
          /\ Len(BinaryCallbacks) <= Len(chunks)
          /\ \A k \in 1..Len(BinaryCallbacks) :
               BinaryCallbacks[k].frame = Binary(chunks[k].data)
          /\ completed <= Len(BinaryCallbacks)
          /\ Len(SelectSeq(selfErrors, LAMBDA e : e = TerminatedEarly)) <= 1
          /\ TerminatedEarly \in Range(selfErrors) =>
               (writing /\ Len(BinaryCallbacks) = Len(chunks) - 1))
  /\ (streamKind = "write" /\ writing) ~> (~writing \/ ChunkSettled(Len(chunks)))

C20_Witness ==
  /\ streamKind = "write"
  /\ completed >= 1
  /\ Len(chunks) = completed + 1
  /\ TerminatedEarly \in Range(selfErrors)

\* C12: getStreamFromPointer given an invalid pointer, or a pointer whose
\* farmer lacks a string address or a numeric port, throws the assertion error
\* and creates no connection, registers no listener and never invokes the
\* callback; it throws for no other pointer.
C12_InvalidPointerThrows ==
  /\ ~(pointer.isPointer /\ pointer.farmer.present /\ pointer.farmer.addressIsString
         /\ pointer.farmer.portIsNumber)
       => /\ sockets = 0
          /\ errListeners = 0
          /\ cbCalls = <<>>
          /\ readyState = "NONE"
  /\ thrown # "none" => (sockets = 0 /\ errListeners = 0 /\ cbCalls = <<>>)
  /\ (pointer.isPointer /\ pointer.farmer.present /\ pointer.farmer.addressIsString
        /\ pointer.farmer.portIsNumber) => thrown = "none"

C12_Witness ==
  /\ pointer.isPointer
  /\ pointer.farmer.present
  /\ pointer.farmer.addressIsString
  /\ ~pointer.farmer.portIsNumber
  /\ thrown = "AssertionError"
  /\ sockets = 0

\* C15: whatever createReadStream / createWriteStream calls are made on a
\* session, inbound messages are dispatched to the message listener of at most
\* one adapter, and at most one handshake is ever handed to the connection.
C15_OneAdapterPerSession ==
  /\ ~(inbox # <<>> /\ second.msgs > 0)
  /\ Len(SelectSeq(SendCalls, LAMBDA e : e.frame.kind = "handshake")) <= 1

====
